---------------------------- MODULE Spec2Model ----------------------------
(* RedisIndexer (src/executor.py): a jina Executor whose endpoints forward  *)
(* to a DocumentArray kept in a Redis collection.  The handlers are taken   *)
(* from executor.py statement by statement.  The DocumentArray operations   *)
(* they call (extend, match, find, item get/set/del, clear) belong to the   *)
(* docarray library, which is not part of the repository: they are        *)
(* modelled by their contract, as executor.py and its tests rely on it.     *)
EXTENDS Integers, Sequences, FiniteSets, TLC

VARIABLES
    _index,       \* self._index: the collection, a map id -> stored Document
    _match_args,  \* self._match_args: the construction-time match options
    pre,          \* the collection as it was when the last request arrived
    call,         \* the last request: endpoint, docs, parameters
    resp,         \* what the last request produced (docs after mutation, ...)
    adapters,     \* the RedisIndexer instances constructed so far: instance ->
                  \* "Open" (self._index bound) or "Closed" (after close())
    by,           \* the instance that served the last request
    seen          \* history: a search served since the collection last
                  \* changed (<<>>: none), kept to compare later ones with

vars == <<_index, _match_args, pre, call, resp, adapters, by, seen>>

----------------------------------------------------------------------------
(* Bounds and value domains                                                 *)

MaxBatch == 2                 \* longest docs batch / id list of a request

Ids == {"a", "b", "c"}        \* document ids
Replicas == {"r1", "r2"}      \* RedisIndexer instances on the same index_name
IdOrder == <<"a", "b", "c">>  \* a fixed enumeration of Ids
Components == 0 .. 2          \* values of the single embedding component
Prices == 0 .. 2              \* values of the 'price' tag
Thresholds == 1 .. 2          \* thresholds used in filter expressions
Limits == {1, 2}              \* explicit 'limit' options

\* Optional values: <<>> is None / key absent, <<v>> is the value v.
Opt(S) == {<<>>} \cup {<<v>> : v \in S}
IsSome(o) == Len(o) = 1
Get(o) == o[1]

\* Sequences over S of length at most n.
SeqUpTo(S, n) == UNION {[1 .. k -> S] : k \in 0 .. n}

Range(s) == {s[i] : i \in DOMAIN s}

\* A Document: id, embedding (n_dim = 1: a vector of one component, or <<>>
\* when the Document carries none), and its 'price' tag.
\* A Match is a (stored Document, score) pair; `matches` is filled by search.
Document(i, e, p) == [id |-> i, embedding |-> e, price |-> p, matches |-> <<>>]
Embeddings == {<<c>> : c \in Components}
\* The Documents that index and update requests carry: two per id (as docs
\* and update_docs of test_update: the same id with another content).  Some
\* differ in the embedding, some in the tag only; some are equidistant from
\* a query.
StoredDocs ==
    {Document("a", <<0>>, 0), Document("a", <<2>>, 1),
     Document("b", <<1>>, 1), Document("b", <<1>>, 2),
     Document("c", <<2>>, 2), Document("c", <<0>>, 0)}

\* The six numeric comparisons of tests/helper.py.
Operators == {"gte", "gt", "lte", "lt", "eq", "ne"}
numeric_operators_redis(op, x, t) ==
    CASE op = "gte" -> x >= t
      [] op = "gt"  -> x > t
      [] op = "lte" -> x <= t
      [] op = "lt"  -> x < t
      [] op = "eq"  -> x = t
      [] op = "ne"  -> x # t

\* A filter expression over the declared numeric column 'price'
\* ('@price:[t inf] ', '@price:[(t inf] ', ... of test_filtering).
Filters == [op : Operators, threshold : Thresholds]

\* A parameters mapping (a Python dict) over the keys the endpoints read:
\* 'ids' (delete), 'limit' and 'filter' (search, filter).  A key that is
\* absent from the dict holds <<>>.
Keys == {"ids", "limit", "filter"}
IdLists == SeqUpTo(Ids, MaxBatch)
Dict(ids, limit, filter) == [ids |-> ids, limit |-> limit, filter |-> filter]
EmptyDict == Dict(<<>>, <<>>, <<>>)

----------------------------------------------------------------------------
(* The DocumentArray (storage='redis') operations the handlers call         *)

EmptyArray == [i \in {} |-> Document("a", <<0>>, 0)]

\* `d.id in da`
contains(da, i) == i \in DOMAIN da

\* len(da)
len(da) == Cardinality(DOMAIN da)

\* da.extend(docs): every Document is written under its id, in order; a
\* Document whose id is already stored replaces the stored one.
RECURSIVE extend(_, _)
extend(da, docs) ==
    IF docs = <<>> THEN da
    ELSE LET d == Head(docs)
         IN  extend([i \in DOMAIN da \cup {d.id} |-> IF i = d.id THEN d ELSE da[i]],
                    Tail(docs))

\* del da[ids]: the listed ids are removed; an id that is not stored is ignored.
delitem(da, ids) == [i \in DOMAIN da \ Range(ids) |-> da[i]]

\* An exception: its type and its argument; <<>> stands for "none raised".
Raise(type, arg) == <<[type |-> type, arg |-> arg]>>

\* da[id] = doc: replaces the Document stored under id; IndexError when the
\* id is not stored (the case RedisIndexer.update catches).
setitem(da, i, doc) ==
    IF contains(da, i)
    THEN [raised |-> <<>>, da |-> [da EXCEPT ![i] = doc]]
    ELSE [raised |-> Raise("IndexError", i), da |-> da]

\* da[id]: the stored Document; KeyError(id) when the id is not stored
\* (test_fill_embeddings: pytest.raises(KeyError, match='b')).
getitem(da, i) ==
    IF contains(da, i)
    THEN [raised |-> <<>>, doc |-> da[i]]
    ELSE [raised |-> Raise("KeyError", i), doc |-> Document(i, <<>>, 0)]

\* da.clear()
clear_storage(da) == EmptyArray

\* Distance of two embeddings under the configured metric (L2, n_dim = 1, as
\* in test_fill_embeddings): the squared difference of the components.
Distance(q, e) == (q[1] - e[1]) * (q[1] - e[1])

\* Position of an id in IdOrder: the order the server returns equidistant
\* Documents in (fixed for a given collection).
IdRank(i) == CHOOSE k \in DOMAIN IdOrder : IdOrder[k] = i

\* Whether a stored Document passes a filter option (<<>>: no filter).
Satisfies(d, filter) ==
    IsSome(filter) =>
        numeric_operators_redis(Get(filter).op, d.price, Get(filter).threshold)

\* The elements of S as a sequence in increasing order of key[x], a function
\* that gives distinct elements distinct keys.
RECURSIVE SortBy(_, _)
SortBy(S, key) ==
    IF S = {} THEN <<>>
    ELSE LET m == CHOOSE x \in S : \A y \in S : key[x] <= key[y]
         IN  <<m>> \o SortBy(S \ {m}, key)

Min(a, b) == IF a <= b THEN a ELSE b

\* The default `limit` of DocumentArray.match / find.
DefaultLimit == 20

\* One query of docs.match(da, limit=..., filter=...): the stored Documents
\* that pass the filter, nearest first, cut to `limit`.
nearest(da, q, limit, filter) ==
    LET cands == {i \in DOMAIN da : Satisfies(da[i], filter)}
        \* nearest first; equidistant Documents in the order of their ids
        key   == [i \in cands |->
                    Distance(q, da[i].embedding) * (Len(IdOrder) + 1) + IdRank(i)]
        order == SortBy(cands, key)
        k     == Min(IF IsSome(limit) THEN Get(limit) ELSE DefaultLimit, Len(order))
    IN  [n \in 1 .. k |->
            [doc |-> da[order[n]], score |-> Distance(q, da[order[n]].embedding)]]

\* docs.match(da, **match_args): every query Document gets its match list.
match(docs, da, match_args) ==
    [n \in DOMAIN docs |->
        [docs[n] EXCEPT !.matches =
            nearest(da, docs[n].embedding, match_args.limit, match_args.filter)]]

\* da.find(filter=...): the stored Documents that pass the filter.
find(da, filter) ==
    LET hits == {i \in DOMAIN da : Satisfies(da[i], filter)}
        order == SortBy(hits, [i \in hits |-> IdRank(i)])
    IN  [n \in DOMAIN order |-> da[order[n]]]

----------------------------------------------------------------------------
(* Requests and responses                                                   *)

Request(op, docs, parameters) == [op |-> op, docs |-> docs, parameters |-> parameters]

\* What a request leaves behind: the exception that escaped the handler
\* (<<>>: none), the request's docs as the handler left them, the returned
\* Documents, the options search handed to match, the ids update warned about.
Response(err, docs, result, match_args, warnings) ==
    [err |-> err, docs |-> docs, result |-> result,
     match_args |-> match_args, warnings |-> warnings]
Ok(docs) == Response(<<>>, docs, <<>>, EmptyDict, <<>>)

\* The executor serves one request at a time: a handler runs to its end and
\* its response leaves before the next request is taken up.
NoRequest == Request("none", <<>>, <<>>)
Idle == call = NoRequest

----------------------------------------------------------------------------
(* The endpoints of RedisIndexer                                            *)

\* index that leaves an id that is already stored as it is
RECURSIVE add_missing(_, _)
add_missing(da, docs) ==
    IF docs = <<>> THEN da
    ELSE add_missing(IF contains(da, Head(docs).id) THEN da
                     ELSE extend(da, <<Head(docs)>>), Tail(docs))
index_keeps_stored(docs) ==
    /\ Idle
    /\ _index' = add_missing(_index, docs)
    /\ pre' = _index
    /\ call' = Request("index", docs, <<>>)
    /\ resp' = Ok(docs)
    /\ UNCHANGED _match_args

\* index that takes a Document whose id is already stored out of the
\* collection in place of rewriting it
index_drops_stored(docs) ==
    /\ Idle
    /\ _index' = delitem(extend(_index, docs),
                         SelectSeq([n \in DOMAIN docs |-> docs[n].id],
                                   LAMBDA i : contains(_index, i)))
    /\ pre' = _index
    /\ call' = Request("index", docs, <<>>)
    /\ resp' = Ok(docs)
    /\ UNCHANGED _match_args

\* @requests(on='/index')
index(docs) ==
    /\ Idle
    /\ _index' = extend(_index, docs)
    /\ pre' = _index
    /\ call' = Request("index", docs, <<>>)
    /\ resp' = Ok(docs)
    /\ UNCHANGED _match_args

\* a merge in which the defaults override the request
merge_defaults_win(defaults, parameters) ==
    [k \in Keys |-> IF IsSome(defaults[k]) THEN defaults[k] ELSE parameters[k]]

\* {**self._match_args, **parameters}: the keys of both, the request's value
\* where both have the key.
merge(defaults, parameters) ==
    [k \in Keys |-> IF IsSome(parameters[k]) THEN parameters[k] ELSE defaults[k]]

\* options taken from the request alone whenever it carries parameters
effective_ignores_defaults(defaults, parameters) ==
    IF parameters # <<>> THEN Get(parameters) ELSE defaults

\* The options search hands to match; `parameters` is <<>> for None.
effective_match_args(defaults, parameters) ==
    IF parameters # <<>> THEN merge(defaults, Get(parameters)) ELSE defaults

\* search that forwards the filter but not the limit
search_unlimited(docs, parameters) ==
    LET match_args == effective_match_args(_match_args, parameters)
    IN  /\ Idle
        /\ resp' = Response(<<>>,
                            match(docs, _index, [match_args EXCEPT !.limit = <<>>]),
                            <<>>, match_args, <<>>)
        /\ pre' = _index
        /\ call' = Request("search", docs, parameters)
        /\ UNCHANGED <<_index, _match_args>>

\* @requests(on='/search')
\* search that finds the configured defaults only on the first instance
search_own_defaults(docs, parameters) ==
    LET match_args == effective_match_args(
                          IF by' = "r1" THEN _match_args ELSE EmptyDict, parameters)
    IN  /\ Idle
        /\ resp' = Response(<<>>, match(docs, _index, match_args), <<>>,
                            match_args, <<>>)
        /\ pre' = _index
        /\ call' = Request("search", docs, parameters)
        /\ UNCHANGED <<_index, _match_args>>

search(docs, parameters) ==
    LET match_args == effective_match_args(_match_args, parameters)
    IN  /\ Idle
        /\ resp' = Response(<<>>, match(docs, _index, match_args), <<>>,
                            match_args, <<>>)
        /\ pre' = _index
        /\ call' = Request("search", docs, parameters)
        /\ UNCHANGED <<_index, _match_args>>

\* delete that removes the first listed id only
delete_first_only(parameters) ==
    LET deleted_ids == IF IsSome(parameters.ids) THEN Get(parameters.ids) ELSE <<>>
    IN  /\ Idle
        /\ _index' = IF Len(deleted_ids) = 0 THEN _index
                     ELSE delitem(_index, <<Head(deleted_ids)>>)
        /\ pre' = _index
        /\ call' = Request("delete", <<>>, <<parameters>>)
        /\ resp' = Ok(<<>>)
        /\ UNCHANGED _match_args

\* @requests(on='/delete')
delete(parameters) ==
    LET deleted_ids == IF IsSome(parameters.ids) THEN Get(parameters.ids) ELSE <<>>
    IN  /\ Idle
        /\ _index' = IF Len(deleted_ids) = 0 THEN _index
                     ELSE delitem(_index, deleted_ids)
        /\ pre' = _index
        /\ call' = Request("delete", <<>>, <<parameters>>)
        /\ resp' = Ok(<<>>)
        /\ UNCHANGED _match_args

\* update whose loop ends at the first id that is not stored
RECURSIVE update_loop_stops(_, _, _, _)
update_loop_stops(da, docs, n, warnings) ==
    IF n > Len(docs) THEN [da |-> da, warnings |-> warnings]
    ELSE LET doc == docs[n]
             set == setitem(da, doc.id, doc)
         IN  IF set.raised = Raise("IndexError", doc.id)
             THEN [da |-> da, warnings |-> Append(warnings, doc.id)]
             ELSE update_loop_stops(set.da, docs, n + 1, warnings)

\* update that applies the first Document of the batch only
update_first_only(docs) ==
    LET set == IF docs = <<>> THEN [raised |-> <<>>, da |-> _index]
               ELSE setitem(_index, docs[1].id, docs[1])
    IN  /\ Idle
        /\ _index' = set.da
        /\ pre' = _index
        /\ call' = Request("update", docs, <<>>)
        /\ resp' = Response(<<>>, docs, <<>>, EmptyDict,
                            IF set.raised = <<>> THEN <<>> ELSE <<docs[1].id>>)
        /\ UNCHANGED _match_args

\* The loop of update over docs[n..]: the collection and the ids warned
\* about so far go in, the final ones come out.
RECURSIVE update_loop(_, _, _, _)
update_loop(da, docs, n, warnings) ==
    IF n > Len(docs) THEN [da |-> da, warnings |-> warnings]
    ELSE LET doc == docs[n]
             set == setitem(da, doc.id, doc)
         IN  IF set.raised = Raise("IndexError", doc.id)
             THEN update_loop(da, docs, n + 1, Append(warnings, doc.id))
             ELSE update_loop(set.da, docs, n + 1, warnings)

\* @requests(on='/update')
update(docs) ==
    LET done == update_loop(_index, docs, 1, <<>>)
    IN  /\ Idle
        /\ _index' = done.da
        /\ pre' = _index
        /\ call' = Request("update", docs, <<>>)
        /\ resp' = Response(<<>>, docs, <<>>, EmptyDict, done.warnings)
        /\ UNCHANGED _match_args

\* @requests(on='/filter')
filter(parameters) ==
    /\ Idle
    /\ resp' = Response(<<>>, <<>>, find(_index, parameters.filter), EmptyDict, <<>>)
    /\ pre' = _index
    /\ call' = Request("filter", <<>>, <<parameters>>)
    /\ UNCHANGED <<_index, _match_args>>

\* fill_embedding that passes over an id that is not stored
RECURSIVE fill_loop_skips(_, _, _)
fill_loop_skips(da, docs, n) ==
    IF n > Len(docs) THEN [err |-> <<>>, docs |-> docs]
    ELSE LET got == getitem(da, docs[n].id)
         IN  IF got.raised # <<>>
             THEN fill_loop_skips(da, docs, n + 1)
             ELSE fill_loop_skips(da, [docs EXCEPT ![n].embedding = got.doc.embedding],
                                  n + 1)

\* fill_embedding that hands the batch back untouched when an id is missing
RECURSIVE fill_loop_rolls_back(_, _, _)
fill_loop_rolls_back(da, docs, n) ==
    LET missing == {k \in n .. Len(docs) : getitem(da, docs[k].id).raised # <<>>}
    IN  IF missing # {}
        THEN [err |-> getitem(da, docs[CHOOSE k \in missing :
                                          \A m \in missing : k <= m].id).raised,
              docs |-> docs]
        ELSE IF n > Len(docs) THEN [err |-> <<>>, docs |-> docs]
        ELSE fill_loop_rolls_back(
                 da, [docs EXCEPT ![n].embedding = getitem(da, docs[n].id).doc.embedding],
                 n + 1)

\* fill_embedding that assigns the other way round: the input Document's
\* embedding is written to the stored Document
fill_embedding_writes_back(docs) ==
    /\ Idle
    /\ _index' = [i \in DOMAIN _index |->
                    IF \E n \in DOMAIN docs : docs[n].id = i
                    THEN [_index[i] EXCEPT !.embedding = <<>>]
                    ELSE _index[i]]
    /\ resp' = Ok(docs)
    /\ pre' = _index
    /\ call' = Request("fill_embedding", docs, <<>>)
    /\ UNCHANGED _match_args

\* The loop of fill_embedding over docs[n..]: stops at the first exception.
RECURSIVE fill_loop(_, _, _)
fill_loop(da, docs, n) ==
    IF n > Len(docs) THEN [err |-> <<>>, docs |-> docs]
    ELSE LET got == getitem(da, docs[n].id)
         IN  IF got.raised # <<>>
             THEN [err |-> got.raised, docs |-> docs]
             ELSE fill_loop(da, [docs EXCEPT ![n].embedding = got.doc.embedding],
                            n + 1)

\* @requests(on='/fill_embedding')
fill_embedding(docs) ==
    LET done == fill_loop(_index, docs, 1)
    IN  /\ Idle
        /\ resp' = Response(done.err, done.docs, <<>>, EmptyDict, <<>>)
        /\ pre' = _index
        /\ call' = Request("fill_embedding", docs, <<>>)
        /\ UNCHANGED <<_index, _match_args>>

\* clear that leaves the last Document in place
clear_keeps_one ==
    /\ Idle
    /\ _index' = [i \in {j \in DOMAIN _index :
                            \A k \in DOMAIN _index : IdRank(k) <= IdRank(j)}
                    |-> _index[i]]
    /\ pre' = _index
    /\ call' = Request("clear", <<>>, <<>>)
    /\ resp' = Ok(<<>>)
    /\ UNCHANGED _match_args

\* @requests(on='/clear')
clear ==
    /\ Idle
    /\ _index' = clear_storage(_index)
    /\ pre' = _index
    /\ call' = Request("clear", <<>>, <<>>)
    /\ resp' = Ok(<<>>)
    /\ UNCHANGED _match_args

\* The response of the request just served is returned to the caller.
reply ==
    /\ ~Idle
    /\ call' = NoRequest
    /\ resp' = Ok(<<>>)
    /\ pre' = _index
    /\ UNCHANGED <<_index, _match_args>>

----------------------------------------------------------------------------
(* Instances: construction, shutdown, dispatch                              *)

NoOne == "none"
IsOpen(r) == r \in DOMAIN adapters /\ adapters[r] = "Open"
IsClosed(r) == r \in DOMAIN adapters /\ adapters[r] = "Closed"

\* A request is dispatched to instance r, whose self._index is bound: the
\* endpoint it is conjoined with runs on r.
Dispatch(r) ==
    /\ IsOpen(r)
    /\ by' = r
    /\ UNCHANGED adapters
Serve(r) == Dispatch(r) /\ UNCHANGED seen

\* The caller has its response; no instance is serving.
Returned ==
    /\ reply
    /\ by' = NoOne
    /\ UNCHANGED <<adapters, seen>>

\* The endpoints, all of which reach the collection through self._index.
Endpoints ==
    {"index", "search", "delete", "update", "filter", "fill_embedding", "clear"}

\* An endpoint called on an instance after close(): `self._index` is no
\* longer an attribute, the lookup raises AttributeError before any
\* DocumentArray operation is reached.
unbound(r, op, docs, parameters) ==
    /\ Idle
    /\ IsClosed(r)
    /\ call' = Request(op, docs, parameters)
    /\ resp' = Response(Raise("AttributeError", "_index"), docs, <<>>, EmptyDict, <<>>)
    /\ pre' = _index
    /\ by' = r
    /\ UNCHANGED <<_index, _match_args, adapters, seen>>

\* close that also empties the collection it was bound to
close_drops_collection(r) ==
    /\ Idle
    /\ r \in DOMAIN adapters
    /\ adapters' = [adapters EXCEPT ![r] = "Closed"]
    /\ _index' = clear_storage(_index)
    /\ call' = Request("close", <<>>, <<>>)
    /\ resp' = Ok(<<>>)
    /\ pre' = _index
    /\ by' = r
    /\ UNCHANGED <<_match_args, seen>>

\* close that leaves self._index bound
close_keeps_handle(r) ==
    /\ Idle
    /\ r \in DOMAIN adapters
    /\ call' = Request("close", <<>>, <<>>)
    /\ resp' = Ok(<<>>)
    /\ pre' = _index
    /\ by' = r
    /\ UNCHANGED <<_index, _match_args, adapters, seen>>

\* RedisIndexer.close: `del self._index` unbinds the instance's handle; the
\* collection in Redis is not touched.  On an instance that is closed
\* already the `del` raises AttributeError.
close(r) ==
    /\ Idle
    /\ r \in DOMAIN adapters
    /\ adapters' = [adapters EXCEPT ![r] = "Closed"]
    /\ call' = Request("close", <<>>, <<>>)
    /\ resp' = IF adapters[r] = "Open" THEN Ok(<<>>)
               ELSE Response(Raise("AttributeError", "_index"), <<>>, <<>>,
                             EmptyDict, <<>>)
    /\ pre' = _index
    /\ by' = r
    /\ UNCHANGED <<_index, _match_args, seen>>

\* RedisIndexer.__init__ of a further instance with the same index_name and
\* configuration: its self._index is bound to the collection as it stands;
\* the response records the Documents the new instance reads from it.
construct(r) ==
    /\ Idle
    /\ r \notin DOMAIN adapters
    /\ adapters' = [a \in DOMAIN adapters \cup {r} |->
                      IF a = r THEN "Open" ELSE adapters[a]]
    /\ call' = Request("__init__", <<>>, <<>>)
    /\ resp' = Response(<<>>, <<>>, find(_index, <<>>), EmptyDict, <<>>)
    /\ pre' = _index
    /\ by' = r
    /\ UNCHANGED <<_index, _match_args, seen>>

----------------------------------------------------------------------------
(* The specification                                                        *)

\* The match_args an indexer is constructed with: none (test_search), or a
\* limit and a filter (test_search_with_match_args).
Configurations ==
    {EmptyDict, Dict(<<>>, <<1>>, <<[op |-> "gte", threshold |-> 1]>>)}

\* Documents as the requests carry them.
QueryDocs == {Document("q", e, 0) : e \in Embeddings}
IdOnlyDocs == {Document(i, <<>>, 0) : i \in Ids}
SearchParameters ==
    {<<>>} \cup {<<Dict(<<>>, l, f)>> : l \in Opt(Limits), f \in Opt(Filters)}

\* RedisIndexer.__init__ on a fresh index_name
Init ==
    /\ _match_args \in Configurations
    /\ _index = EmptyArray
    /\ pre = EmptyArray
    /\ call = NoRequest
    /\ resp = Ok(<<>>)
    /\ adapters = [r \in {"r1"} |-> "Open"]
    /\ by = NoOne
    /\ seen = <<>>

\* One instance, open throughout, and every endpoint with its full inputs.
Next ==
    \/ \E r \in DOMAIN adapters, docs \in SeqUpTo(StoredDocs, MaxBatch) :
            Serve(r) /\ index(docs)
    \/ \E r \in DOMAIN adapters, docs \in SeqUpTo(QueryDocs, MaxBatch),
          p \in SearchParameters :
            Serve(r) /\ search(docs, p)
    \/ \E r \in DOMAIN adapters, ids \in Opt(IdLists) :
            Serve(r) /\ delete(Dict(ids, <<>>, <<>>))
    \/ \E r \in DOMAIN adapters, docs \in SeqUpTo(StoredDocs, MaxBatch) :
            Serve(r) /\ update(docs)
    \/ \E r \in DOMAIN adapters, f \in Opt(Filters) :
            Serve(r) /\ filter(Dict(<<>>, <<>>, f))
    \/ \E r \in DOMAIN adapters, docs \in SeqUpTo(IdOnlyDocs, MaxBatch) :
            Serve(r) /\ fill_embedding(docs)
    \/ \E r \in DOMAIN adapters : Serve(r) /\ clear
    \/ Returned

Spec == Init /\ [][Next]_vars

\* Shutdown and restart (test_reload_keep_state, test_persistence): the
\* instance serves requests, is closed, may still be called, and a fresh
\* instance is constructed on the same index_name once the running ones are
\* closed.
NextRestart ==
    \/ \E r \in DOMAIN adapters, docs \in SeqUpTo(StoredDocs, MaxBatch) :
            Serve(r) /\ index(docs)
    \/ \E r \in DOMAIN adapters, docs \in SeqUpTo(QueryDocs, MaxBatch) :
            Serve(r) /\ search(docs, <<>>)
    \/ \E r \in DOMAIN adapters, ids \in Opt(IdLists) :
            Serve(r) /\ delete(Dict(ids, <<>>, <<>>))
    \/ \E r \in DOMAIN adapters, docs \in SeqUpTo(StoredDocs, MaxBatch) :
            Serve(r) /\ update(docs)
    \/ \E r \in DOMAIN adapters : Serve(r) /\ filter(EmptyDict)
    \/ \E r \in DOMAIN adapters, docs \in SeqUpTo(IdOnlyDocs, MaxBatch) :
            Serve(r) /\ fill_embedding(docs)
    \/ \E r \in DOMAIN adapters : Serve(r) /\ clear
    \/ \E r \in DOMAIN adapters, op \in Endpoints \ {"fill_embedding"},
          docs \in SeqUpTo(StoredDocs, 1) :
            unbound(r, op, docs, <<EmptyDict>>)
    \/ \E r \in DOMAIN adapters, docs \in SeqUpTo(IdOnlyDocs, 1) :
            unbound(r, "fill_embedding", docs, <<>>)
    \/ \E r \in DOMAIN adapters : close(r)
    \/ \E r \in Replicas :
            (\A a \in DOMAIN adapters : IsClosed(a)) /\ construct(r)
    \/ Returned

SpecRestart == Init /\ [][NextRestart]_vars

\* Replicas (test_replicas, test_replicas_reindex): several instances with
\* the same configuration are open on the same index_name and every request,
\* of one Document (request_size=1), goes to any one of them.
InitReplicas ==
    /\ _match_args \in Configurations
    /\ _index = EmptyArray
    /\ pre = EmptyArray
    /\ call = NoRequest
    /\ resp = Ok(<<>>)
    /\ adapters = [r \in Replicas |-> "Open"]
    /\ by = NoOne
    /\ seen = <<>>

\* History after a search by r: the search is kept, unless the kept one is
\* the same request (then the first serving of it stays).
Recorded(r) ==
    seen' = IF seen # <<>> /\ Get(seen).call = call' THEN seen
            ELSE <<[by |-> r, call |-> call', collection |-> _index,
                    docs |-> resp'.docs, reindexed |-> {}]>>

\* History after a write by r: forgotten when the collection changed; else
\* kept, noting r when the write was an index.
Kept(r) ==
    seen' = IF _index' # _index \/ seen = <<>> THEN <<>>
            ELSE IF call'.op = "index"
            THEN <<[Get(seen) EXCEPT !.reindexed = @ \cup {r}]>>
            ELSE seen

ReplicaSearchParameters == {<<>>, <<Dict(<<>>, <<2>>, <<>>)>>}

NextReplicas ==
    \/ \E r \in DOMAIN adapters, d \in StoredDocs :
            Dispatch(r) /\ index(<<d>>) /\ Kept(r)
    \/ \E r \in DOMAIN adapters, q \in QueryDocs, p \in ReplicaSearchParameters :
            Dispatch(r) /\ search(<<q>>, p) /\ Recorded(r)
    \/ \E r \in DOMAIN adapters, i \in Ids :
            Dispatch(r) /\ delete(Dict(<< <<i>> >>, <<>>, <<>>)) /\ Kept(r)
    \/ \E r \in DOMAIN adapters : Dispatch(r) /\ clear /\ Kept(r)
    \/ Returned

SpecReplicas == InitReplicas /\ [][NextReplicas]_vars

----------------------------------------------------------------------------
(* Properties                                                               *)

\* The ids a batch of Documents names, and the last Document it holds for an id.
BatchIds(docs) == {docs[n].id : n \in DOMAIN docs}
LastDoc(docs, i) ==
    docs[CHOOSE n \in DOMAIN docs :
            docs[n].id = i /\ \A m \in DOMAIN docs : m > n => docs[m].id # i]

\* The ids a delete request lists ({} when the 'ids' key is absent).
ListedIds ==
    LET p == Get(call.parameters)
    IN  IF IsSome(p.ids) THEN Range(Get(p.ids)) ELSE {}

\* C1: after delete(ids) no listed id is stored, every Document whose id is
\* not listed is stored unchanged, the size has dropped by the number of
\* (distinct) listed ids that were stored, no error is raised for ids that
\* were not stored, and an empty or absent list changes nothing.
C1_Delete ==
    call.op = "delete" =>
        /\ resp.err = <<>>
        /\ \A i \in ListedIds : ~contains(_index, i)
        /\ \A i \in DOMAIN pre \ ListedIds : contains(_index, i) /\ _index[i] = pre[i]
        /\ DOMAIN _index \subseteq DOMAIN pre
        /\ len(_index) = len(pre) - Cardinality(ListedIds \cap DOMAIN pre)
        /\ (ListedIds = {} => _index = pre)

\* A delete that lists a stored id and an id that is not stored, from a
\* collection that keeps another Document.
C1_Witness ==
    /\ call.op = "delete"
    /\ ListedIds \cap DOMAIN pre # {}
    /\ ListedIds \ DOMAIN pre # {}
    /\ DOMAIN pre \ ListedIds # {}
    /\ len(_index) = len(pre) - 1

\* C2: an update whose batch names an id that is not stored raises nothing,
\* creates no entry for that id (the size stays), warns about it, and leaves
\* every stored id of the batch holding the batch's Document for it, before
\* and after the missing one.
C2_UpdateSkipsMissing ==
    (call.op = "update" /\ BatchIds(call.docs) \ DOMAIN pre # {}) =>
        /\ resp.err = <<>>
        /\ \A i \in BatchIds(call.docs) \ DOMAIN pre :
               ~contains(_index, i) /\ i \in Range(resp.warnings)
        /\ len(_index) = len(pre)
        /\ \A i \in BatchIds(call.docs) \cap DOMAIN pre :
               contains(_index, i) /\ _index[i] = LastDoc(call.docs, i)

\* An update of <<missing, stored>> that changed the stored Document.
C2_Witness ==
    /\ call.op = "update"
    /\ Len(call.docs) = 2
    /\ ~contains(pre, call.docs[1].id)
    /\ contains(pre, call.docs[2].id)
    /\ pre[call.docs[2].id] # call.docs[2]
    /\ _index[call.docs[2].id] = call.docs[2]

\* C3: after update(docs) every stored id named by the batch reads back the
\* batch's (last) Document for it, the size is unchanged, and every Document
\* whose id the batch does not name is unchanged.
C3_UpdateReplaces ==
    call.op = "update" =>
        /\ DOMAIN _index = DOMAIN pre
        /\ \A i \in DOMAIN pre :
               _index[i] = IF i \in BatchIds(call.docs)
                           THEN LastDoc(call.docs, i) ELSE pre[i]

\* An update of two stored ids that changed both and left a third alone.
C3_Witness ==
    /\ call.op = "update"
    /\ Len(call.docs) = 2
    /\ call.docs[1].id # call.docs[2].id
    /\ \A n \in 1 .. 2 :
           /\ contains(pre, call.docs[n].id)
           /\ pre[call.docs[n].id] # call.docs[n]
           /\ _index[call.docs[n].id] = call.docs[n]
    /\ len(pre) = 3

\* C4: index(docs) stores every given Document; an id that is already stored
\* is overwritten without error, so the size afterwards is the number of
\* distinct ids of the old collection and the batch together.
C4_Index ==
    call.op = "index" =>
        /\ resp.err = <<>>
        /\ DOMAIN _index = DOMAIN pre \cup BatchIds(call.docs)
        /\ \A i \in BatchIds(call.docs) : _index[i] = LastDoc(call.docs, i)
        /\ \A i \in DOMAIN pre \ BatchIds(call.docs) : _index[i] = pre[i]
        /\ len(_index) = Cardinality(DOMAIN pre \cup BatchIds(call.docs))
        /\ len(_index) = len(pre) + Cardinality(BatchIds(call.docs) \ DOMAIN pre)

\* An index of a new id and of a stored id with another content: the size
\* grows by one and the stored Document is overwritten.
C4_Witness ==
    /\ call.op = "index"
    /\ \E n, m \in DOMAIN call.docs :
           /\ ~contains(pre, call.docs[n].id)
           /\ contains(pre, call.docs[m].id)
           /\ pre[call.docs[m].id] # call.docs[m]
           /\ _index[call.docs[m].id] = call.docs[m]
    /\ len(_index) = len(pre) + 1

\* C5: fill_embedding gives every input Document the embedding stored under
\* its id when all the ids are stored; when an id is not stored the call
\* fails with a KeyError that names an id of the batch that is not stored.
C5_FillEmbedding ==
    call.op = "fill_embedding" =>
        IF BatchIds(call.docs) \subseteq DOMAIN pre
        THEN /\ resp.err = <<>>
             /\ Len(resp.docs) = Len(call.docs)
             /\ \A n \in DOMAIN call.docs :
                    /\ resp.docs[n].id = call.docs[n].id
                    /\ resp.docs[n].embedding = pre[call.docs[n].id].embedding
        ELSE \E i \in BatchIds(call.docs) \ DOMAIN pre :
                    resp.err = Raise("KeyError", i)

\* A fill_embedding of <<stored, missing>>: the KeyError names the missing id.
C5_Witness ==
    /\ call.op = "fill_embedding"
    /\ Len(call.docs) = 2
    /\ contains(pre, call.docs[1].id)
    /\ ~contains(pre, call.docs[2].id)
    /\ resp.err = Raise("KeyError", call.docs[2].id)

\* C6: after clear() the collection is empty whatever it held; while it is
\* empty every request other than index leaves it empty and every search
\* gives every query an empty match list; an index into the emptied
\* collection stores exactly its batch; and no request changes the
\* construction-time match_args.
C6_Clear ==
    /\ [](call.op = "clear" => len(_index) = 0)
    /\ [][(len(_index) = 0 /\ call'.op # "index") =>
            /\ len(_index') = 0
            /\ call'.op = "search" =>
                   \A n \in DOMAIN resp'.docs : resp'.docs[n].matches = <<>>]_vars
    /\ [][(len(_index) = 0 /\ call'.op = "index") =>
            DOMAIN _index' = BatchIds(call'.docs)]_vars
    /\ [][_match_args' = _match_args]_vars

\* A clear of a collection of three Documents, by an indexer constructed
\* with match_args.
C6_Witness ==
    /\ call.op = "clear"
    /\ len(pre) = 3
    /\ len(_index) = 0
    /\ _match_args # EmptyDict

\* The option a search is expected to run with under key k: the request's
\* when the request has the key, else the construction-time one.
ExpectedOption(k) ==
    IF call.parameters # <<>> /\ IsSome(Get(call.parameters)[k])
    THEN Get(call.parameters)[k]
    ELSE _match_args[k]
ExpectedLimit ==
    IF IsSome(ExpectedOption("limit")) THEN Get(ExpectedOption("limit"))
    ELSE DefaultLimit

\* C7: the options of a search are match_args merged with the request's
\* parameters: per key the request's value if it has one, else the default;
\* exactly the defaults when parameters is None; the match lists are those of
\* these options; and the stored defaults never change.
C7_EffectiveOptions ==
    /\ [](call.op = "search" =>
            /\ call.parameters = <<>> => resp.match_args = _match_args
            /\ \A k \in Keys : resp.match_args[k] = ExpectedOption(k)
            /\ \A n \in DOMAIN resp.docs :
                   Len(resp.docs[n].matches) <= ExpectedLimit)
    /\ [][_match_args' = _match_args]_vars

\* A search whose request overrides the default limit and keeps the default
\* filter, and gets more matches than the default limit allows.
C7_Witness ==
    /\ call.op = "search"
    /\ call.parameters # <<>>
    /\ IsSome(_match_args.limit) /\ IsSome(_match_args.filter)
    /\ IsSome(Get(call.parameters).limit)
    /\ Get(call.parameters).limit # _match_args.limit
    /\ ~IsSome(Get(call.parameters).filter)
    /\ resp.match_args.limit = Get(call.parameters).limit
    /\ resp.match_args.filter = _match_args.filter
    /\ \E n \in DOMAIN resp.docs :
           Len(resp.docs[n].matches) > Get(_match_args.limit)

\* The stored Documents a search may return: those passing the expected filter.
Candidates == {i \in DOMAIN pre : Satisfies(pre[i], ExpectedOption("filter"))}

\* C8: every match list is in non-decreasing order of distance to its query,
\* is no longer than the effective limit nor than the number of stored
\* Documents passing the filter, and holds every candidate when there are no
\* more candidates than the limit.
C8_MatchesOrdered ==
    call.op = "search" =>
        \A n \in DOMAIN resp.docs :
            LET ms == resp.docs[n].matches
                q  == call.docs[n].embedding
            IN  /\ \A j \in DOMAIN ms : ms[j].score = Distance(q, ms[j].doc.embedding)
                /\ \A j \in 1 .. Len(ms) - 1 : ms[j].score <= ms[j + 1].score
                /\ Len(ms) <= ExpectedLimit
                /\ Len(ms) <= Cardinality(Candidates)
                /\ Cardinality({ms[j].doc.id : j \in DOMAIN ms}) = Len(ms)
                /\ {ms[j].doc.id : j \in DOMAIN ms} \subseteq Candidates
                /\ Cardinality(Candidates) <= ExpectedLimit =>
                       {ms[j].doc.id : j \in DOMAIN ms} = Candidates

\* A search with limit 2 over three candidates: two matches, the second
\* strictly farther than the first.
C8_Witness ==
    /\ call.op = "search"
    /\ ExpectedLimit = 2
    /\ Cardinality(Candidates) = 3
    /\ \E n \in DOMAIN resp.docs :
           /\ Len(resp.docs[n].matches) = 2
           /\ resp.docs[n].matches[1].score < resp.docs[n].matches[2].score

\* C9: when a search runs with a filter, from the request or from the
\* defaults, every match is a stored Document whose price stands in the
\* filter's relation (gte, gt, lte, lt, eq, ne) to its threshold.
C9_MatchesPassFilter ==
    (call.op = "search" /\ IsSome(ExpectedOption("filter"))) =>
        LET f == Get(ExpectedOption("filter"))
        IN  \A n \in DOMAIN resp.docs :
                \A j \in DOMAIN resp.docs[n].matches :
                    LET m == resp.docs[n].matches[j].doc
                    IN  /\ contains(pre, m.id) /\ pre[m.id] = m
                        /\ f.op = "gte" => m.price >= f.threshold
                        /\ f.op = "gt"  => m.price > f.threshold
                        /\ f.op = "lte" => m.price <= f.threshold
                        /\ f.op = "lt"  => m.price < f.threshold
                        /\ f.op = "eq"  => m.price = f.threshold
                        /\ f.op = "ne"  => m.price # f.threshold

\* A search filtered by the defaults' filter alone, over a collection with
\* Documents on both sides of it, that returned a match.
C9_Witness ==
    /\ call.op = "search"
    /\ call.parameters # <<>>
    /\ ~IsSome(Get(call.parameters).filter)
    /\ IsSome(_match_args.filter)
    /\ Candidates # {}
    /\ DOMAIN pre \ Candidates # {}
    /\ \E n \in DOMAIN resp.docs : Len(resp.docs[n].matches) > 0

\* The position of the first Document of the last request whose id was not
\* stored when the request arrived.
MissingAt == {n \in DOMAIN call.docs : ~contains(pre, call.docs[n].id)}
FirstMissing == CHOOSE n \in MissingAt : \A m \in MissingAt : n <= m

\* C15: a fill_embedding whose batch names an id that is not stored stops at
\* the first such id: the KeyError names it (and no later one), every
\* Document before it carries its stored embedding, and it and every
\* Document after it are as the request brought them.
C15_FillStopsAtFirstMissing ==
    (call.op = "fill_embedding" /\ MissingAt # {}) =>
        /\ resp.err = Raise("KeyError", call.docs[FirstMissing].id)
        /\ Len(resp.docs) = Len(call.docs)
        /\ \A n \in DOMAIN call.docs :
               resp.docs[n] =
                   IF n < FirstMissing
                   THEN [call.docs[n] EXCEPT
                            !.embedding = pre[call.docs[n].id].embedding]
                   ELSE call.docs[n]

\* A fill_embedding of <<stored, missing>>: the first Document was filled
\* and stays filled although the call failed on the second.
C15_Witness ==
    /\ call.op = "fill_embedding"
    /\ Len(call.docs) = 2
    /\ MissingAt # {}
    /\ FirstMissing = 2
    /\ resp.err # <<>>
    /\ call.docs[1].embedding = <<>>
    /\ resp.docs[1].embedding = pre[call.docs[1].id].embedding
    /\ resp.docs[1].embedding # <<>>
    /\ resp.docs[2].embedding = <<>>

\* C16: search, filter and fill_embedding leave the collection as it was,
\* ids, contents, embeddings and size, whether they succeed or fail; what
\* they change is the request's own Documents (matches, embedding).
C16_ReadsKeepCollection ==
    call.op \in {"search", "filter", "fill_embedding"} =>
        /\ _index = pre
        /\ DOMAIN _index = DOMAIN pre
        /\ len(_index) = len(pre)
        /\ \A n \in DOMAIN resp.docs :
               /\ resp.docs[n].id = call.docs[n].id
               /\ resp.docs[n].price = call.docs[n].price

\* A fill_embedding that filled one Document and then failed, over a
\* collection that holds Documents: the collection is as before.
C16_Witness ==
    /\ call.op = "fill_embedding"
    /\ resp.err # <<>>
    /\ resp.docs # call.docs
    /\ len(pre) = 2
    /\ _index = pre

\* The number of matches a search over the collection `pre` gives a query
\* under the expected options.
ExpectedCount == Min(ExpectedLimit, Cardinality(Candidates))

\* C11: close() removes nothing from the collection; an instance constructed
\* afterwards on the same index_name reads exactly the Documents that were
\* there (same ids, same content, same count); and a search served by any
\* instance returns as many matches as the collection and the options give,
\* before the restart as after it.
C11_ClosePersists ==
    /\ call.op = "close" => _index = pre
    /\ call.op = "__init__" =>
           /\ _index = pre
           /\ IsOpen(by)
           /\ Len(resp.result) = len(pre)
           /\ {resp.result[n] : n \in DOMAIN resp.result} = {pre[i] : i \in DOMAIN pre}
    /\ (call.op = "search" /\ resp.err = <<>>) =>
           \A n \in DOMAIN resp.docs : Len(resp.docs[n].matches) = ExpectedCount

\* The instance that indexed three Documents is closed and a fresh one has
\* just been constructed: it reads the three Documents.
C11_Witness ==
    /\ call.op = "__init__"
    /\ by = "r2"
    /\ IsClosed("r1")
    /\ len(_index) = 3
    /\ Len(resp.result) = 3

MatchIds(ms) == {ms[j].doc.id : j \in DOMAIN ms}
NoRepeat(ms) == Cardinality(MatchIds(ms)) = Len(ms)

\* The kept search is the same request as the last one, over the same
\* collection.
SameSearchAgain ==
    /\ call.op = "search"
    /\ seen # <<>>
    /\ Get(seen).call = call
    /\ Get(seen).collection = pre

\* C13: with several instances on one collection, each serving one-Document
\* requests in any order, an index request whose Document is already stored
\* with the same content leaves the collection as it was (nothing lost,
\* nothing added); and a search repeated after such re-indexing returns what
\* it returned before it, each match once and each a stored Document.
C13_ReindexConverges ==
    /\ (/\ call.op = "index"
        /\ \A n \in DOMAIN call.docs :
               /\ contains(pre, call.docs[n].id)
               /\ getitem(pre, call.docs[n].id).doc = call.docs[n])
       => /\ _index = pre
          /\ len(_index) = len(pre)
    /\ (SameSearchAgain /\ Get(seen).reindexed # {})
       => /\ resp.docs = Get(seen).docs
          /\ \A n \in DOMAIN resp.docs :
                 /\ NoRepeat(resp.docs[n].matches)
                 /\ MatchIds(resp.docs[n].matches) \subseteq DOMAIN pre
                 /\ \A j \in DOMAIN resp.docs[n].matches :
                        resp.docs[n].matches[j].doc = pre[resp.docs[n].matches[j].doc.id]

\* Three Documents are stored, a search returned all three, both instances
\* then re-indexed stored Documents, and the search is served again.
C13_Witness ==
    /\ SameSearchAgain
    /\ Get(seen).reindexed = Replicas
    /\ len(pre) = 3
    /\ Len(resp.docs[1].matches) = 3
    /\ _index = pre

====
